---- MODULE Spec2Model ----
(***************************************************************************)
(* Client-side processing orchestration of learnable.ai: the useProcessing *)
(* hook (three implementations live in the repository), the useApiKey and  *)
(* useFileUpload hooks it depends on, and the ApiClient transport.         *)
(***************************************************************************)
EXTENDS Integers, Sequences, FiniteSets, TLC

\* ---------------------------------------------------------------- bounds
\* MaxCalls mutate() calls are followed with an empty queue; a queue of up
\* to MaxQueue files is followed through one mutate() call.  A quiz has up
\* to MaxQuestions questions, a mind map up to MaxNodes nodes.
MaxCalls == 2
MaxQueue == 2
MaxQuestions == 2
MaxNodes == 5

\* ------------------------------------------------------ program constants
MAX_FILE_SIZE == 52428800
XHR_TIMEOUT == 300000
DefaultNumQuestions == 10
MaxLabel == 50

Undef == "undefined"
Absent == 0
NoTimeout == 0

IDLE == "idle"
UPLOADING == "uploading"
PROCESSING == "processing"
SUCCESS == "success"
ERROR == "error"
PROCESSING_STATES == {IDLE, UPLOADING, PROCESSING, SUCCESS, ERROR}

UNSUPPORTED_FILE_TYPE == "This file type is not supported"
FILE_TOO_LARGE == "File size exceeds the maximum limit of 50MB"
API_KEY_MISSING == "API key is required. Please configure it in Settings."
NO_INPUT == "No files or text provided for processing"
INVALID_RESPONSE == "Invalid response from server"

DOCUMENTS == {".pdf", ".docx", ".doc"}
AUDIO == {".mp3", ".wav", ".m4a", ".flac", ".aac", ".ogg"}
VIDEO == {".mp4", ".avi", ".mov", ".mkv", ".wmv", ".flv", ".webm", ".m4v"}
ALL == DOCUMENTS \cup AUDIO \cup VIDEO

SUMMARIZE_CONTENT == "/learning/summarize-content"
GENERATE_MINDMAP == "/learning/generate-mindmap"
GENERATE_MINDMAP_MULTIMEDIA == "/learning/generate-mindmap-multimedia"
GENERATE_MCQ_QUIZ == "/learning/generate-mcq-quiz"
GENERATE_MCQ_QUIZ_MULTIMEDIA == "/learning/generate-mcq-quiz-multimedia"
GENERATE_FLASHCARDS == "/learning/generate-flashcards"
GENERATE_FLASHCARDS_MULTIMEDIA == "/learning/generate-flashcards-multimedia"

\* The three implementations of useProcessing found in the repository.
MergeImpl == "part_004"
MultimediaImpl == "part_003"
ReplaceImpl == "hooks/useProcessing.ts"
Impls == {MergeImpl, MultimediaImpl, ReplaceImpl}

Slots == {"summary", "mindmap", "quiz", "flashcards"}

Kinds == {"summarizeText", "processMultimedia", "summarizeMultimedia",
          "generateMindmap", "generateQuiz", "generateFlashcards"}

\* The mutations each implementation of the hook returns.
KindsOf(i) ==
  IF i = MergeImpl THEN Kinds
  ELSE IF i = MultimediaImpl THEN Kinds \ {"summarizeText"}
  ELSE {"summarizeText", "generateMindmap", "generateQuiz", "generateFlashcards"}

\* The result slots a mutation writes on success.
SlotsOf(k) ==
  IF k = "processMultimedia" THEN Slots
  ELSE IF k \in {"summarizeText", "summarizeMultimedia"} THEN {"summary"}
  ELSE IF k = "generateMindmap" THEN {"mindmap"}
  ELSE IF k = "generateQuiz" THEN {"quiz"}
  ELSE {"flashcards"}

\* ------------------------------------------------------------------ files
\* A file name is held as the list of its parts between dots
\* (name.split('.')); sizes are in bytes.
NoFile == [name |-> <<>>, size |-> 0]

FileInputs ==
  { [name |-> <<"lecture", "MP3">>, size |-> 1024],
    [name |-> <<"talk", "wav">>, size |-> 2048],
    [name |-> <<"clip", "mp4">>, size |-> MAX_FILE_SIZE],
    [name |-> <<"notes", "v2", "pdf">>, size |-> 4096],
    [name |-> <<"movie", "mp4">>, size |-> MAX_FILE_SIZE + 1],
    [name |-> <<"README">>, size |-> 10] }

toLowerCase(s) ==
  IF s = "MP3" THEN "mp3"
  ELSE IF s = "README" THEN "readme"
  ELSE IF s = "PDF" THEN "pdf"
  ELSE IF s = "Mp4" THEN "mp4"
  ELSE IF s = "DocX" THEN "docx"
  ELSE IF s = "A" THEN "a"
  ELSE IF s = "B" THEN "b"
  ELSE s

\* '.' + file.name.split('.').pop()?.toLowerCase()
Extension(file) == "." \o toLowerCase(file.name[Len(file.name)])

validateFile(file) ==
  IF Extension(file) \notin ALL
    THEN [isValid |-> FALSE, error |-> UNSUPPORTED_FILE_TYPE]
  ELSE IF file.size > MAX_FILE_SIZE
    THEN [isValid |-> FALSE, error |-> FILE_TOO_LARGE]
  ELSE [isValid |-> TRUE, error |-> Undef]

createUploadedFile(file) ==
  [file |-> file, extension |-> Extension(file)]

NoUpload == [file |-> NoFile, extension |-> ""]

RECURSIVE ValidUploads(_)
\* fileArray.forEach: the valid files of the batch, in batch order.
ValidUploads(batch) ==
  IF batch = <<>> THEN <<>>
  ELSE IF validateFile(Head(batch)).isValid
       THEN <<createUploadedFile(Head(batch))>> \o ValidUploads(Tail(batch))
       ELSE ValidUploads(Tail(batch))

RECURSIVE FindFrom(_, _, _)
\* Array.prototype.find over the queue: the first element, in index order,
\* whose extension is in the list; NoFile stands for undefined?.file.
FindFrom(queue, exts, i) ==
  IF i > Len(queue) THEN NoFile
  ELSE IF queue[i].extension \in exts THEN queue[i].file
  ELSE FindFrom(queue, exts, i + 1)

RECURSIVE FindLastFrom(_, _, _)
\* The scan run from the tail of the queue: the last matching element.
FindLastFrom(queue, exts, i) ==
  IF i < 1 THEN NoFile
  ELSE IF queue[i].extension \in exts THEN queue[i].file
  ELSE FindLastFrom(queue, exts, i - 1)

Find_Last(queue, exts) == FindLastFrom(queue, exts, Len(queue))

Find(queue, exts) == FindFrom(queue, exts, 1)

\* ------------------------------------------------------------------ texts
Texts == {"", " ", "photosynthesis"}

trim(t) == IF t = " " THEN "" ELSE t

\* JavaScript truthiness of an optional string.
Truthy(t) == t \notin {Undef, ""}

\* `t && t.trim()`
HasText(t) == Truthy(t) /\ trim(t) # ""

QuestionCounts == {5}

VARIABLES
  impl,              \* the useProcessing implementation that is mounted
  hasApiKey,         \* useApiKey state
  uploadedFiles,     \* useFileUpload state: the upload queue
  processingStatus,  \* useProcessing state
  results,           \* useProcessing state
  inflight,          \* mutations whose transport has not settled every part
  calls,             \* number of mutate() invocations so far
  lastCall,          \* what the step just taken handed to the ApiClient
  lastSettled,       \* the mutation that the step just taken settled
  lastOp,            \* the reset or cancel that the step just taken ran
  window,            \* the bounds of this behaviour: calls and queue length
  candidate,         \* the File handed to validateFile
  validation,        \* the FileValidationResult it returned
  uploadImpl,        \* the upload queue implementation that is mounted
  lastBatch,         \* the files the step just taken selected or dropped
  quiz,              \* ResultsSection props: results.quiz.quiz
  quizState,         \* ResultsSection state
  activeTab,         \* the tab of the results the user has open
  pendingInit,       \* the quiz init effect is scheduled and has not run
  crashed,           \* a render of ResultsSection threw
  lastQuizOp,        \* the event the step just taken delivered to the viewer
  flashcards,        \* ResultsSection props: results.flashcards.total_cards
  visibleFlashcards, \* ResultsSection state
  mindmapData,       \* the MindmapData handed to the diagram generator
  mermaidCode,       \* the diagram text it returned
  gateway,  \* one call of an ApiClient method, and its transport
  dashResults,       \* pages/Dashboard.tsx: the results list in memory
  learningResults,   \* localStorage item "learningResults"
  now                \* the clock that Date.now() reads

hookVars == <<impl, hasApiKey, uploadedFiles, processingStatus, results,
              inflight, calls, lastCall, lastSettled, lastOp, window>>

\* The state of the components around the hooks.
validatorVars == <<candidate, validation>>
uploadVars == <<uploadImpl, lastBatch>>
viewerVars == <<quiz, quizState, activeTab, pendingInit, crashed, lastQuizOp,
                flashcards, visibleFlashcards>>
mindVars == <<mindmapData, mermaidCode>>
dashVars == <<dashResults, learningResults, now>>
toolVars == <<mindVars, gateway, dashVars>>
uiVars == <<validatorVars, uploadVars, viewerVars, toolVars>>

vars == <<hookVars, uiVars>>

\* ----------------------------------------------------------------- state
NoArg == -1

\* The status messages, one per class of text the hook displays.
MSG_NONE == ""
MSG_WORKING == "Generating..."
MSG_DONE == "generated successfully!"
MSG_CANCELLED == "Processing cancelled"

IdleStatus ==
  [state |-> IDLE, progress |-> 0, message |-> MSG_NONE, error |-> Undef]

\* `progress || prev.progress` in place of `??`: a progress of 0 is taken
\* for a missing argument.
updateStatus_FalsyProgress(prev, state, progress, message, error) ==
  [state |-> state,
   progress |-> IF progress = NoArg \/ progress = 0 THEN prev.progress
                ELSE progress,
   message |-> IF message = Undef THEN prev.message ELSE message,
   error |-> error]

\* setProcessingStatus(prev => ({...prev, state, progress: progress ??
\* prev.progress, message: message ?? prev.message, error}))
updateStatus(prev, state, progress, message, error) ==
  [state |-> state,
   progress |-> IF progress = NoArg THEN prev.progress ELSE progress,
   message |-> IF message = Undef THEN prev.message ELSE message,
   error |-> error]

\* results === null is the record whose `present` flag is off.
NullResults ==
  [present |-> FALSE, summary |-> Absent, mindmap |-> Absent,
   quiz |-> Absent, flashcards |-> Absent, content_type |-> Undef,
   original_file |-> NoUpload]

\* {...prev}: spreading null gives the empty object.
Spread(prev) == [prev EXCEPT !.present = TRUE]

\* prev?.content_type || data.content_type
OrElse(a, b) == IF Truthy(a) THEN a ELSE b

NoCall ==
  [kind |-> "none", text |-> Undef, issued |-> FALSE,
   error |-> Undef, transport |-> "none", endpoints |-> {}, audio |-> NoFile,
   video |-> NoFile, document |-> NoFile, num |-> Absent, asked |-> Absent]

\* -------------------------------------------------------------- inputs
\* What a caller may hand to mutate(), by the TypeScript signature of each
\* mutationFn.  shape is typeof input; text is the text/topic/content
\* member (or the string itself); nqKey is the name of the question-count
\* member of a quiz input.
NoInputRec == [shape |-> Undef, text |-> Undef, nqKey |-> "none", n |-> Absent]

InputsOf(k) ==
  IF k = "summarizeText"
    THEN { [NoInputRec EXCEPT !.shape = "object", !.text = t] : t \in Texts }
  ELSE IF k \in {"processMultimedia", "summarizeMultimedia"}
    THEN { [NoInputRec EXCEPT !.shape = "string", !.text = t] : t \in Texts }
         \cup {NoInputRec}
  ELSE IF k = "generateMindmap"
    THEN { [NoInputRec EXCEPT !.shape = sh, !.text = t] :
             sh \in {"object", "string"}, t \in Texts }
         \cup {NoInputRec}
  ELSE IF k = "generateQuiz"
    THEN { [shape |-> "object", text |-> t, nqKey |-> key, n |-> q] :
             t \in Texts \cup {Undef},
             key \in {"numQuestions", "num_questions"},
             q \in QuestionCounts }
  ELSE { [NoInputRec EXCEPT !.shape = sh, !.text = t] :
           sh \in {"object", "string"}, t \in Texts }

\* 'numQuestions' in input ? input.numQuestions : 10
NumQuestions(input) ==
  IF input.nqKey = "numQuestions" THEN input.n ELSE DefaultNumQuestions

\* ------------------------------------------------- ApiClient (part_009)
JsonCall(endpoint, text, num) ==
  [NoCall EXCEPT !.issued = TRUE, !.transport = "fetch",
                 !.endpoints = {endpoint}, !.text = text,
                 !.num = num]

\* FormData built by the *Multimedia methods: a file field is appended
\* only for a file that is present.
MultipartCall(endpoints, audioFile, videoFile, documentFile, text, num) ==
  [NoCall EXCEPT !.issued = TRUE, !.transport = "xhr",
                 !.endpoints = endpoints, !.audio = audioFile,
                 !.video = videoFile, !.document = documentFile,
                 !.text = text, !.num = num]

\* The gateway used by hooks/useProcessing.ts (summarizeContent,
\* createMindmap, createMCQQuiz, createFlashcards) is not in the sources.
ClientCall(endpoint, text, num) ==
  [NoCall EXCEPT !.issued = TRUE, !.transport = "client",
                 !.endpoints = {endpoint}, !.text = text,
                 !.num = num]

\* The timer of the gateway behind hooks/useProcessing.ts, which is not in
\* the sources: five minutes per request.
ClientTimeout == XHR_TIMEOUT

\* The per-request timer each transport arms: makeFileRequest sets
\* xhr.timeout; makeRequest passes no signal or timer to fetch.
TimeoutOf(transport) ==
  IF transport = "xhr" THEN XHR_TIMEOUT
  ELSE IF transport = "client" THEN ClientTimeout
  ELSE NoTimeout

\* The ways one transport attempt can fail besides its timer: a non-2xx
\* status, malformed JSON, an error member, a network error and an abort
\* all reject with an Error whose message the hook copies into the status;
\* one message stands for them.
ErrorsOf(transport) == {"http"}

TextEndpoint(k) ==
  IF k \in {"summarizeText", "summarizeMultimedia"} THEN SUMMARIZE_CONTENT
  ELSE IF k = "generateMindmap" THEN GENERATE_MINDMAP
  ELSE IF k = "generateQuiz" THEN GENERATE_MCQ_QUIZ
  ELSE GENERATE_FLASHCARDS

MultimediaEndpoint(k) ==
  IF k \in {"summarizeText", "summarizeMultimedia"} THEN SUMMARIZE_CONTENT
  ELSE IF k = "generateMindmap" THEN GENERATE_MINDMAP_MULTIMEDIA
  ELSE IF k = "generateQuiz" THEN GENERATE_MCQ_QUIZ_MULTIMEDIA
  ELSE GENERATE_FLASHCARDS_MULTIMEDIA

\* processMultimedia: Promise.all over the four *Multimedia methods.
AllEndpoints ==
  { MultimediaEndpoint(k) :
      k \in {"summarizeMultimedia", "generateMindmap", "generateQuiz",
             "generateFlashcards"} }

\* A mutationFn that throws before reaching the ApiClient.
Throw(message, text) == [NoCall EXCEPT !.error = message, !.text = text]

\* ------------------------------------- mutationFn bodies of useProcessing
\* uploadedFiles.filter(f => list.includes(f.extension))
Filter(queue, exts) == SelectSeq(queue, LAMBDA f : f.extension \in exts)

\* files[0]?.file
FirstFile(files) == IF Len(files) = 0 THEN NoFile ELSE files[1].file

\* validateApiKey() of useApiKey: throws when the hook holds no key.
validateApiKey(key) == key

processMultimediaFn(input, queue) ==
  LET audioFiles == Filter(queue, AUDIO)
      videoFiles == Filter(queue, VIDEO)
      documentFiles == Filter(queue, DOCUMENTS)
  IN IF Len(audioFiles) = 0 /\ Len(videoFiles) = 0
        /\ Len(documentFiles) = 0 /\ ~Truthy(input.text)
     THEN Throw(NO_INPUT, input.text)
     ELSE MultipartCall(AllEndpoints, FirstFile(audioFiles),
                        FirstFile(videoFiles), FirstFile(documentFiles),
                        input.text, DefaultNumQuestions)

\* The multimedia branch shared by the single-artifact mutations.
MultimediaFn(k, text, num, queue) ==
  MultipartCall({MultimediaEndpoint(k)}, Find(queue, AUDIO),
                Find(queue, VIDEO), Find(queue, DOCUMENTS), text, num)

\* part_004: text inputs go to the JSON endpoints.
mutationFn_part004(k, input, key, queue) ==
  IF ~validateApiKey(key) THEN Throw(API_KEY_MISSING, input.text)
  ELSE IF k = "summarizeText"
    THEN JsonCall(SUMMARIZE_CONTENT, input.text, Absent)
  ELSE IF k = "processMultimedia" THEN processMultimediaFn(input, queue)
  ELSE IF k = "summarizeMultimedia"
    THEN MultimediaFn(k, input.text, Absent, queue)
  ELSE IF k = "generateMindmap"
    THEN IF input.shape = "object"
         THEN JsonCall(GENERATE_MINDMAP, input.text, Absent)
         ELSE MultimediaFn(k, input.text, Absent, queue)
  ELSE IF k = "generateQuiz"
    THEN IF HasText(input.text)
         THEN JsonCall(GENERATE_MCQ_QUIZ, input.text, NumQuestions(input))
         ELSE MultimediaFn(k, input.text, NumQuestions(input), queue)
  ELSE IF input.shape = "string"
         THEN MultimediaFn(k, input.text, Absent, queue)
         ELSE JsonCall(GENERATE_FLASHCARDS, input.text, Absent)

\* part_003: "Always use multimedia endpoint".
mutationFn_part003(k, input, key, queue) ==
  IF ~validateApiKey(key) THEN Throw(API_KEY_MISSING, input.text)
  ELSE IF k = "processMultimedia" THEN processMultimediaFn(input, queue)
  ELSE IF k = "generateQuiz"
    THEN MultimediaFn(k, input.text, NumQuestions(input), queue)
  ELSE MultimediaFn(k, input.text, Absent, queue)

\* hooks/useProcessing.ts: no key check, no routing; the input goes to the
\* gateway as it is.
mutationFn_hooks(k, input) ==
  ClientCall(TextEndpoint(k), input.text, input.n)

mutationFn(im, k, input, key, queue) ==
  LET call == IF im = MergeImpl THEN mutationFn_part004(k, input, key, queue)
              ELSE IF im = MultimediaImpl
                THEN mutationFn_part003(k, input, key, queue)
              ELSE mutationFn_hooks(k, input)
  IN [call EXCEPT !.kind = k]

\* One request per mutate() that reached the ApiClient.  parts counts the
\* transport attempts that have not settled (four for processMultimedia,
\* one per endpoint); rejected says the mutation's promise has already
\* rejected.
NewRequest(id, call) ==
  [id |-> id, kind |-> call.kind, transport |-> call.transport,
   timeout |-> TimeoutOf(call.transport),
   parts |-> Cardinality(call.endpoints), rejected |-> FALSE]

\* ------------------------------------------- onSuccess / onError handlers
\* data.content_type as the backend reports it.
ContentTypes == {"multimedia"}

\* uploadedFiles[0] || undefined
FirstUpload(queue) == IF Len(queue) = 0 THEN NoUpload ELSE queue[1]

\* A merge that keeps the slot of the request issued last (request data
\* carry the issue number): last-issued-wins.
MergeSlot_KeepNewest(prev, slot, data, ct) ==
  [Spread(prev) EXCEPT ![slot] = IF prev[slot] > data THEN prev[slot] ELSE data,
                       !.content_type = ct]

\* setResults(prev => ({...prev, [slot]: data, content_type}))
MergeSlot(prev, slot, data, ct) ==
  [Spread(prev) EXCEPT ![slot] = data, !.content_type = ct]

\* A completion of processMultimedia that stores the summary alone.
AllSlots_SummaryOnly(base, data, ct, queue) ==
  [base EXCEPT !.present = TRUE, !.summary = data, !.content_type = ct,
               !.original_file = FirstUpload(queue)]

\* The four slots that the completion of processMultimedia writes.
AllSlots(base, data, ct, queue) ==
  [base EXCEPT !.present = TRUE, !.summary = data, !.mindmap = data,
               !.quiz = data, !.flashcards = data, !.content_type = ct,
               !.original_file = FirstUpload(queue)]

\* setResults({id, type, data, createdAt, status, [slot]: data.data})
ReplaceWith(slot, data) ==
  [NullResults EXCEPT !.present = TRUE, ![slot] = data]

SlotOf(k) == CHOOSE s \in SlotsOf(k) : TRUE

onSuccess_part004(k, prev, data, ct, queue) ==
  IF k = "summarizeText" THEN MergeSlot(prev, "summary", data, "text")
  ELSE IF k = "processMultimedia" THEN AllSlots(NullResults, data, ct, queue)
  ELSE MergeSlot(prev, SlotOf(k), data, ct)

onSuccess_part003(k, prev, data, ct, queue) ==
  IF k = "processMultimedia" THEN AllSlots(prev, data, ct, queue)
  ELSE IF k = "summarizeMultimedia" THEN MergeSlot(prev, "summary", data, ct)
  ELSE MergeSlot(prev, SlotOf(k), data, OrElse(prev.content_type, ct))

\* hooks/useProcessing.ts: mindmap and flashcards refuse a response
\* without data; summary and quiz store data.data whatever it is.
InvalidResponse(k, hasData) ==
  k \in {"generateMindmap", "generateFlashcards"} /\ ~hasData

onSuccess_hooks(k, prev, data, hasData) ==
  IF InvalidResponse(k, hasData) THEN prev
  ELSE ReplaceWith(SlotOf(k), IF hasData THEN data ELSE Absent)

\* The results object after the onSuccess handler of mutation k.
onSuccessResults(im, k, prev, data, ct, hasData, queue) ==
  IF im = MergeImpl THEN onSuccess_part004(k, prev, data, ct, queue)
  ELSE IF im = MultimediaImpl THEN onSuccess_part003(k, prev, data, ct, queue)
  ELSE onSuccess_hooks(k, prev, data, hasData)

\* The status after the onSuccess handler of mutation k.
onSuccessStatus(im, k, prev, hasData) ==
  IF im = ReplaceImpl /\ InvalidResponse(k, hasData)
  THEN updateStatus(prev, ERROR, 0, MSG_NONE, INVALID_RESPONSE)
  ELSE updateStatus(prev, SUCCESS, 100, MSG_DONE, Undef)

\* onError: (error) => updateStatus(ERROR, 0, '', error.message); the
\* results are not touched.
onErrorStatus(prev, message) == updateStatus(prev, ERROR, 0, MSG_NONE, message)

\* An onError that also drops the results, as resetProcessing does.
onErrorResults_Clear(prev) == NullResults

onErrorResults(prev) == prev

\* What is remembered of the mutation a step settled: ok says it resolved
\* and its onSuccess stored a result; data is what the gateway returned;
\* cancelled says the status it met was the one cancelProcessing leaves;
\* overtook says a mutation issued after it had already stored its result
\* in the slot.
NoSettled ==
  [id |-> 0, kind |-> "none", ok |-> FALSE, data |-> Absent,
   cancelled |-> FALSE, overtook |-> FALSE]

Settled(id, k, ok, data, status, prev) ==
  [id |-> id, kind |-> k, ok |-> ok, data |-> data,
   cancelled |-> (status.state = IDLE /\ status.message = MSG_CANCELLED),
   overtook |-> prev[SlotOf(k)] > id]

\* What is remembered of a resetProcessing or cancelProcessing step: the
\* operation and the state the status was in when it ran.
NoOp == [op |-> "none", from |-> IDLE]

Ran(op, status) == [op |-> op, from |-> status.state]

Windows ==
  { [calls |-> MaxCalls, queue |-> 0], [calls |-> 1, queue |-> MaxQueue] }

\* The three upload queues found in the repository.
AppendImpl == "hooks/useFileUpload.ts"
FirstOnlyImpl == "part_002"
DashboardImpl == "pages/Dashboard.tsx"
UploadImpls == {AppendImpl, FirstOnlyImpl, DashboardImpl}

\* No selection or drop in the step just taken.
NoBatch == <<>>

NoValidation == [isValid |-> FALSE, error |-> "none"]

\* The validator before any file reaches it.
ValidatorIdle ==
  /\ candidate = NoFile
  /\ validation = NoValidation

\* The upload queue before any selection.
UploadIdle ==
  /\ uploadImpl = AppendImpl
  /\ lastBatch = NoBatch

\* results.quiz and results.flashcards of results that hold neither.
NoQuiz == <<>>
NoDeck == -1

\* JavaScript null.
Null == "null"

\* const [visibleFlashcards, setVisibleFlashcards] = useState<number>(12)
PageSize == 12

\* useState<QuizState>({currentQuestion: 0, userAnswers: [], showResults:
\* false, score: 0})
InitialQuizState ==
  [currentQuestion |-> 0, userAnswers |-> <<>>, showResults |-> FALSE,
   score |-> 0]

\* No event in the step just taken.
NoQuizOp == [op |-> "none", showResults |-> FALSE, score |-> 0]

\* <Tabs defaultValue="summary">
DefaultTab == "summary"

\* ResultsSection as it is mounted with null results.
ViewerIdle ==
  /\ quiz = NoQuiz
  /\ quizState = InitialQuizState
  /\ activeTab = DefaultTab
  /\ pendingInit = FALSE
  /\ crashed = FALSE
  /\ lastQuizOp = NoQuizOp
  /\ flashcards = NoDeck
  /\ visibleFlashcards = PageSize

\* No mind map handed to the diagram generator, and no diagram.
NoMindmap ==
  [size |-> 0, parent |-> <<>>, name |-> <<>>, listed |-> FALSE,
   topic |-> <<>>]
NoDiagram == <<>>

\* The diagram generator before anything is handed to it.
MindIdle ==
  /\ mindmapData = NoMindmap
  /\ mermaidCode = NoDiagram

\* An ApiClient on which no method has been called: no fetch() or
\* xhr.send() yet, and no promise.
NoGatewayCall ==
  [method |-> "none", transport |-> "none", phase |-> "idle", sends |-> 0,
   ending |-> "none",
   status |-> 0, body |-> "none", settles |-> 0, settled |-> "pending",
   message |-> ""]

GatewayIdle == gateway = NoGatewayCall

\* localStorage.getItem of a key that was never set.
NoItem == [present |-> FALSE, text |-> <<>>]

\* The Dashboard before it is mounted, over an empty local storage.
DashIdle ==
  /\ dashResults = <<>>
  /\ learningResults = NoItem
  /\ now = 0

\* The utilities before anything is handed to them.
ToolIdle ==
  /\ MindIdle
  /\ GatewayIdle
  /\ DashIdle

\* The components before any event reaches them.
UiInit ==
  /\ ValidatorIdle
  /\ UploadIdle
  /\ ViewerIdle
  /\ ToolIdle

\* ------------------------------------------------------------------ Init
Init ==
  /\ impl \in Impls
  /\ hasApiKey \in BOOLEAN
  /\ uploadedFiles = <<>>
  /\ processingStatus = IdleStatus
  /\ results = NullResults
  /\ inflight = {}
  /\ calls = 0
  /\ lastCall = NoCall
  /\ lastSettled = NoSettled
  /\ lastOp = NoOp
  /\ window \in Windows
  /\ UiInit

\* --------------------------------------------------------------- actions
\* mutation.mutate(input): the mutationFn runs up to its network call; a
\* throw rejects the mutation at once and onError runs.
Mutate(k, input) ==
  /\ k \in KindsOf(impl)
  /\ calls < window.calls
  /\ LET call == mutationFn(impl, k, input, hasApiKey, uploadedFiles)
     IN /\ lastCall' = [call EXCEPT !.asked = input.n]
        /\ lastOp' = NoOp
        /\ calls' = calls + 1
        /\ IF call.issued
           THEN /\ inflight' = inflight \cup {NewRequest(calls + 1, call)}
                /\ processingStatus' =
                     updateStatus(processingStatus, PROCESSING, 0, MSG_WORKING, Undef)
                /\ lastSettled' = NoSettled
                /\ results' = results
           ELSE /\ inflight' = inflight
                /\ processingStatus' =
                     onErrorStatus(processingStatus, call.error)
                /\ results' = onErrorResults(results)
                /\ lastSettled' =
                     Settled(calls + 1, k, FALSE, Absent, processingStatus,
                             results)
  /\ UNCHANGED <<impl, hasApiKey, uploadedFiles, window, uiVars>>

\* The request once one of its transport attempts has settled; a request
\* with no attempt left is dropped.
Without(r) ==
  IF r.parts = 1 THEN {} ELSE {[r EXCEPT !.parts = r.parts - 1]}

\* A transport attempt of r ends with a 2xx response holding JSON without
\* an error member.  The mutation resolves when its last attempt does.
Resolve(r, ct, hasData) ==
  /\ r \in inflight
  /\ hasData \/ impl = ReplaceImpl
  /\ inflight' = (inflight \ {r}) \cup Without(r)
  /\ lastCall' = NoCall
  /\ lastOp' = NoOp
  /\ IF r.parts = 1 /\ ~r.rejected
     THEN /\ results' = onSuccessResults(impl, r.kind, results, r.id, ct,
                                         hasData, uploadedFiles)
          /\ processingStatus' =
               onSuccessStatus(impl, r.kind, processingStatus, hasData)
          /\ lastSettled' =
               Settled(r.id, r.kind,
                       ~(impl = ReplaceImpl /\ InvalidResponse(r.kind, hasData)),
                       IF hasData THEN r.id ELSE Absent, processingStatus,
                       results)
     ELSE /\ lastSettled' = NoSettled
          /\ UNCHANGED <<results, processingStatus>>
  /\ UNCHANGED <<impl, hasApiKey, uploadedFiles, calls, window, uiVars>>

\* The rejection of one transport attempt of r: the mutation rejects with
\* the first attempt that fails, and onError runs once.
Fail(r, message) ==
  /\ inflight' = (inflight \ {r}) \cup Without([r EXCEPT !.rejected = TRUE])
  /\ lastCall' = NoCall
  /\ lastOp' = NoOp
  /\ IF ~r.rejected
     THEN /\ processingStatus' = onErrorStatus(processingStatus, message)
          /\ results' = onErrorResults(results)
          /\ lastSettled' =
               Settled(r.id, r.kind, FALSE, Absent, processingStatus, results)
     ELSE /\ lastSettled' = NoSettled
          /\ UNCHANGED <<results, processingStatus>>
  /\ UNCHANGED <<impl, hasApiKey, uploadedFiles, calls, window, uiVars>>

\* Non-2xx status, malformed JSON, an error member, a network error or an
\* aborted transfer.
Reject(r, message) ==
  /\ r \in inflight
  /\ message \in ErrorsOf(r.transport)
  /\ Fail(r, message)

\* The timer of the transport fires: only a request that armed one.
Timeout(r) ==
  /\ r \in inflight
  /\ r.timeout # NoTimeout
  /\ Fail(r, "timeout")

\* No call to the ApiClient and no settling in this step.
Quiet == lastCall' = NoCall /\ lastSettled' = NoSettled /\ lastOp' = NoOp

ProgressValues == {50}

\* xhr.upload 'progress' event of an attempt that has not settled: the
\* onProgress callback handed to the *Multimedia methods.
Progress(r, p) ==
  /\ r \in inflight
  /\ r.transport = "xhr"
  /\ processingStatus' = updateStatus(processingStatus, PROCESSING, p, MSG_WORKING, Undef)
  /\ Quiet
  /\ UNCHANGED <<impl, hasApiKey, uploadedFiles, results, inflight, calls, window, uiVars>>

\* A cancel that also aborts the transfers in flight.
cancelProcessing_Abort ==
  /\ impl # ReplaceImpl
  /\ processingStatus' = updateStatus(processingStatus, IDLE, 0, MSG_CANCELLED, Undef)
  /\ inflight' = {}
  /\ lastCall' = NoCall /\ lastSettled' = NoSettled
  /\ lastOp' = Ran("cancelProcessing", processingStatus)
  /\ UNCHANGED <<impl, hasApiKey, uploadedFiles, results, calls, window, uiVars>>

cancelProcessing ==
  /\ impl # ReplaceImpl
  /\ processingStatus' = updateStatus(processingStatus, IDLE, 0, MSG_CANCELLED, Undef)
  /\ lastCall' = NoCall /\ lastSettled' = NoSettled
  /\ lastOp' = Ran("cancelProcessing", processingStatus)
  /\ UNCHANGED <<impl, hasApiKey, uploadedFiles, results, inflight, calls, window, uiVars>>

resetProcessing ==
  /\ processingStatus' = IdleStatus
  /\ results' = NullResults
  /\ lastCall' = NoCall /\ lastSettled' = NoSettled
  /\ lastOp' = Ran("resetProcessing", processingStatus)
  /\ UNCHANGED <<impl, hasApiKey, uploadedFiles, inflight, calls, window, uiVars>>

\* saveApiKey(key): an all-blank key throws and nothing is stored.
saveApiKey(key) ==
  /\ trim(key) # ""
  /\ hasApiKey' = TRUE
  /\ Quiet
  /\ UNCHANGED <<impl, uploadedFiles, processingStatus, results, inflight,
                 calls, window, uiVars>>

removeApiKey ==
  /\ hasApiKey' = FALSE
  /\ Quiet
  /\ UNCHANGED <<impl, uploadedFiles, processingStatus, results, inflight,
                 calls, window, uiVars>>

\* handleFileSelect of hooks/useFileUpload.ts: setUploadedFiles(prev =>
\* [...prev, ...newFiles]) when the batch has a valid file.
handleFileSelect_hooks(queue, batch) ==
  LET newFiles == ValidUploads(batch)
  IN IF Len(newFiles) > 0 THEN queue \o newFiles ELSE queue

\* handleFileSelect of part_002: only the first file of the batch is
\* looked at, and a valid one replaces the queue.
handleFileSelect_part002(queue, batch) ==
  IF Len(batch) = 0 THEN queue
  ELSE IF validateFile(batch[1]).isValid
    THEN <<createUploadedFile(batch[1])>>
  ELSE queue

\* The queue entry of pages/Dashboard.tsx: {id, file, name, size, type},
\* without an extension member.
DashboardEntry(file) == [file |-> file, extension |-> Undef]

\* addUploadedFiles of pages/Dashboard.tsx: every file of the batch is
\* appended; validateFile is not called.
addUploadedFiles(queue, batch) ==
  queue \o [i \in 1..Len(batch) |-> DashboardEntry(batch[i])]

\* The batches a file picker or a drop hands over.
Batches ==
  { <<f>> : f \in FileInputs } \cup
  { <<f, g>> : f \in {h \in FileInputs : h.size = 10}, g \in FileInputs } \cup
  { <<f, g>> : f \in FileInputs, g \in {h \in FileInputs : h.size = 1024} }

\* handleFileSelect(files) of hooks/useFileUpload.ts: the valid files of
\* the batch are appended to the queue.
handleFileSelect(batch) ==
  /\ Len(uploadedFiles) + Len(ValidUploads(batch)) <= window.queue
  /\ uploadedFiles' = handleFileSelect_hooks(uploadedFiles, batch)
  /\ Quiet
  /\ UNCHANGED <<impl, hasApiKey, processingStatus, results, inflight,
                 calls, window, uiVars>>

\* removeFile(fileId): ids are unique, so the filter drops one position.
removeFile(i) ==
  /\ i \in 1..Len(uploadedFiles)
  /\ uploadedFiles' = SubSeq(uploadedFiles, 1, i - 1)
                      \o SubSeq(uploadedFiles, i + 1, Len(uploadedFiles))
  /\ Quiet
  /\ UNCHANGED <<impl, hasApiKey, processingStatus, results, inflight,
                 calls, window, uiVars>>

clearFiles ==
  /\ uploadedFiles' = <<>>
  /\ Quiet
  /\ UNCHANGED <<impl, hasApiKey, processingStatus, results, inflight,
                 calls, window, uiVars>>

Next ==
  \/ \E k \in Kinds : \E input \in InputsOf(k) : Mutate(k, input)
  \/ \E r \in inflight : \E ct \in ContentTypes : \E hasData \in BOOLEAN :
       Resolve(r, ct, hasData)
  \/ \E r \in inflight : \E message \in ErrorsOf("xhr") : Reject(r, message)
  \/ \E r \in inflight : Timeout(r)
  \/ \E r \in inflight : \E p \in ProgressValues : Progress(r, p)
  \/ cancelProcessing
  \/ resetProcessing
  \/ \E key \in Texts : saveApiKey(key)
  \/ removeApiKey
  \/ \E batch \in Batches : handleFileSelect(batch)
  \/ \E i \in 1..MaxQueue : removeFile(i)
  \/ clearFiles

Spec == Init /\ [][Next]_vars

\* The timers of the browser run on their own: a request whose transport
\* armed one does not wait for it for ever.
FairSpec == Spec /\ WF_vars(\E r \in inflight : Timeout(r))

\* ----------------------------------------------------------------- claims
\* The mutations that generate one artifact.
ArtifactKinds ==
  {"summarizeText", "summarizeMultimedia", "generateMindmap", "generateQuiz",
   "generateFlashcards"}

\* The step just taken settled a mutation / stored its result.
Settles == lastSettled.kind # "none"
Completes == Settles /\ lastSettled.ok

\* C1: the completion of a request of one artifact type changes only that
\* type's slot of the results (and content_type); every other slot keeps
\* the value it had just before the completion.
C1_CompletionKeepsOtherSlots ==
  [][ (lastSettled'.kind \in ArtifactKinds /\ lastSettled'.ok)
        => \A s \in Slots \ SlotsOf(lastSettled'.kind) :
             results'[s] = results[s] ]_vars

\* C2: the status never moves from idle directly to success or to error.
C2_NoIdleToSuccessOrError ==
  [][ processingStatus.state = IDLE
        => processingStatus'.state \notin {SUCCESS, ERROR} ]_vars

\* C3: with no API key, a generate-* action ends in the error state and no
\* network request has been issued.
C3_NoKeyNoRequest ==
  (lastCall.kind # "none" /\ ~hasApiKey)
    => (~lastCall.issued /\ processingStatus.state = ERROR)

\* C4: a generate action for one of the four artifact types, invoked with
\* empty text and an empty queue, issues no network request and ends in
\* the error state (stated of the implementations whose transport is in
\* the sources, with a key present).
C4_EmptyInputRejected ==
  (lastCall.kind \in ArtifactKinds /\ impl # ReplaceImpl /\ hasApiKey
     /\ ~Truthy(lastCall.text) /\ uploadedFiles = <<>>)
    => (~lastCall.issued /\ processingStatus.state = ERROR)

\* The mutations that choose between the two endpoints of their artifact.
RoutingKinds == {"generateMindmap", "generateQuiz", "generateFlashcards"}

\* C5: for each artifact type, non-empty text with no queued file goes to
\* the text/JSON endpoint, and empty text with at least one queued file
\* goes to the multimedia endpoint (stated of the mutations that choose
\* the endpoint themselves, in the implementations whose transport is in
\* the sources).
C5_Routing ==
  (lastCall.kind \in RoutingKinds /\ lastCall.issued /\ impl # ReplaceImpl)
    => /\ (HasText(lastCall.text) /\ uploadedFiles = <<>>)
            => /\ lastCall.transport = "fetch"
               /\ lastCall.endpoints = {TextEndpoint(lastCall.kind)}
       /\ (~Truthy(lastCall.text) /\ Len(uploadedFiles) >= 1)
            => /\ lastCall.transport = "xhr"
               /\ lastCall.endpoints = {MultimediaEndpoint(lastCall.kind)}

\* The file of the lowest queue position whose extension is in exts, or
\* NoFile when the queue holds none.
FirstOfCategory(queue, exts) ==
  LET at == {i \in 1..Len(queue) : queue[i].extension \in exts}
  IN IF at = {} THEN NoFile
     ELSE queue[CHOOSE i \in at : \A j \in at : i <= j].file

\* C6: a multimedia request carries, for audio, video and document, the
\* first file of that category in queue order and no other file.
C6_FirstFileOfEachCategory ==
  (lastCall.issued /\ lastCall.transport = "xhr")
    => /\ lastCall.audio = FirstOfCategory(uploadedFiles, AUDIO)
       /\ lastCall.video = FirstOfCategory(uploadedFiles, VIDEO)
       /\ lastCall.document = FirstOfCategory(uploadedFiles, DOCUMENTS)

\* C6 witness: a multimedia request issued over a queue holding two audio
\* files; the one sent is the first, the second is left out.
C6_Witness ==
  /\ lastCall.issued /\ lastCall.transport = "xhr"
  /\ Len(uploadedFiles) = 2
  /\ uploadedFiles[1].extension \in AUDIO
  /\ uploadedFiles[2].extension \in AUDIO
  /\ uploadedFiles[1].file # uploadedFiles[2].file
  /\ lastCall.audio = uploadedFiles[1].file

\* C7: a failed request (rejection, timeout, failed precondition) leaves
\* every slot of the results as it was.
C7_FailureKeepsResults ==
  [][ (lastSettled'.kind # "none" /\ ~lastSettled'.ok)
        => results' = results ]_vars

\* C7 witness: a request has just failed and a result stored by an
\* earlier request is still there.
C7_Witness ==
  /\ Settles /\ ~lastSettled.ok
  /\ results.present
  /\ \E s \in Slots : results[s] # Absent

\* C8: every request that is started eventually settles; when the backend
\* never answers, the timer of the transport ends it.
C8_EveryRequestSettles == (inflight # {}) ~> (inflight = {})

\* C9: of two requests for the same slot in flight together, the one
\* that completes last leaves its data in the slot, also when it was
\* issued first: each completion writes its own data.
C9_LastResolvedWins ==
  Completes => \A s \in SlotsOf(lastSettled.kind) : results[s] = lastSettled.data

\* C9 witness: a request completes after a request issued later has
\* stored its result in the same slot, and the slot now holds the data of
\* the earlier-issued, later-completed request.
C9_Witness ==
  /\ Completes /\ lastSettled.overtook
  /\ lastSettled.data = lastSettled.id
  /\ results[SlotOf(lastSettled.kind)] = lastSettled.id

\* A step of cancelProcessing that changes the status.
CancelStep ==
  /\ processingStatus' # processingStatus
  /\ processingStatus'.state = IDLE
  /\ processingStatus'.message = MSG_CANCELLED

\* C10: cancelProcessing sets the status to idle and nothing else: the
\* requests in flight stay in flight, the results are not touched, and a
\* request completing after the cancel is applied to its slot.
C10_CancelOnlySetsIdle ==
  [][ /\ CancelStep => /\ inflight' = inflight
                       /\ results' = results
                       /\ hasApiKey' = hasApiKey
                       /\ uploadedFiles' = uploadedFiles
      /\ (lastSettled'.kind # "none" /\ lastSettled'.ok /\ lastSettled'.cancelled)
           => /\ results'[SlotOf(lastSettled'.kind)] = lastSettled'.data
              /\ processingStatus'.state = SUCCESS ]_vars

\* C10 witness: a request that was in flight when cancelProcessing ran has
\* completed, and its data are in its slot.
C10_Witness ==
  /\ Completes /\ lastSettled.cancelled
  /\ lastSettled.data # Absent
  /\ results[SlotOf(lastSettled.kind)] = lastSettled.data

\* C11: from the success state and from the error state, resetProcessing
\* and cancelProcessing each leave the status idle with progress 0.
C11_ResetAndCancelToIdle ==
  (lastOp.op \in {"resetProcessing", "cancelProcessing"}
     /\ lastOp.from \in {SUCCESS, ERROR})
    => (processingStatus.state = IDLE /\ processingStatus.progress = 0)

\* C11 witness: cancelProcessing has just run on a status that was in the
\* success state, and the status is idle with progress 0.
C11_Witness ==
  /\ lastOp = Ran("cancelProcessing", [state |-> SUCCESS])
  /\ processingStatus.state = IDLE
  /\ processingStatus.progress = 0


\* C20: the question count the caller of generate-quiz asks for is the
\* num_questions the gateway is sent, on the JSON request and on the
\* multipart request alike.
C20_AskedCountIsSent ==
  (lastCall.kind = "generateQuiz" /\ lastCall.issued)
    => lastCall.num = lastCall.asked

\* const isProcessing = state === 'processing' || state === 'uploading'
isProcessing == processingStatus.state \in {PROCESSING, UPLOADING}

\* C28: the is-processing flag is true exactly while some request is
\* pending: with the status idle, success or error no request is in
\* flight, and with the status processing or uploading one is.
C28_BusyExactlyWhilePending == isProcessing <=> inflight # {}

\* C29: processMultimedia writes the four slots together.  A step in which
\* one of its four transfers ends sets summary, mindmap, quiz and
\* flashcards to the returned data when it is the last transfer and none
\* has failed; otherwise it leaves the results as they were, and the
\* status is error when the step is the first failure.
C29_AllOrNothing ==
  [][ \A r \in inflight :
        (r.kind = "processMultimedia" /\ r \notin inflight'
           /\ lastOp' = NoOp /\ calls' = calls)
          => IF r.parts = 1 /\ ~r.rejected /\ lastSettled'.ok
             THEN \A s \in Slots : results'[s] = r.id
             ELSE /\ results' = results
                  /\ ~lastSettled'.ok
                  /\ lastSettled'.kind = "processMultimedia"
                       => processingStatus'.state = ERROR
                  /\ ~r.rejected /\ lastSettled'.kind = "none"
                       => processingStatus' = processingStatus ]_vars

\* C29 witness: a process-all request has just stored its four artifacts
\* while an earlier one, one of whose transfers failed, still has
\* transfers in flight.
C29_Witness ==
  /\ lastSettled.kind = "processMultimedia"
  /\ lastSettled.ok
  /\ \A s \in Slots : results[s] = lastSettled.id
  /\ \E r \in inflight : r.kind = "processMultimedia" /\ r.rejected

ValidatorNames ==
  { <<"a", e>> : e \in {"pdf", "docx", "doc", "mp3", "wav", "m4a", "flac",
                        "aac", "ogg", "mp4", "avi", "mov", "mkv", "wmv",
                        "flv", "webm", "m4v"} }
  \cup { <<"a", "MP3">>, <<"a", "PDF">>, <<"a", "Mp4">>, <<"a", "DocX">>,
         <<"a", "txt">>, <<"a", "exe">>, <<"a", "tar", "gz">>,
         <<"notes", "v2", "pdf">>, <<"a", "pdf", "">>, <<"", "pdf">>,
         <<"README">>, <<"mp4">>, <<"">> }

ValidatorSizes ==
  {0, 1024, MAX_FILE_SIZE - 1, MAX_FILE_SIZE, MAX_FILE_SIZE + 1,
   60 * 1024 * 1024}

ValidatorInputs ==
  { [name |-> n, size |-> z] : n \in ValidatorNames, z \in ValidatorSizes }

\* The hooks as they are mounted, with nothing called on them.
HooksIdle ==
  /\ impl = MergeImpl
  /\ hasApiKey = FALSE
  /\ uploadedFiles = <<>>
  /\ processingStatus = IdleStatus
  /\ results = NullResults
  /\ inflight = {}
  /\ calls = 0
  /\ lastCall = NoCall
  /\ lastSettled = NoSettled
  /\ lastOp = NoOp
  /\ window = [calls |-> 0, queue |-> 0]

ValidatorInit ==
  /\ HooksIdle
  /\ candidate \in ValidatorInputs
  /\ validation = NoValidation
  /\ UploadIdle
  /\ ViewerIdle
  /\ ToolIdle

\* validateFile(file)
Validate ==
  /\ validation = NoValidation
  /\ validation' = validateFile(candidate)
  /\ UNCHANGED <<hookVars, candidate, uploadVars, viewerVars, toolVars>>

\* The next file to validate.
NextFile(file) ==
  /\ validation # NoValidation
  /\ candidate' = file
  /\ validation' = NoValidation
  /\ UNCHANGED <<hookVars, uploadVars, viewerVars, toolVars>>

ValidatorNext ==
  \/ Validate
  \/ \E file \in ValidatorInputs : NextFile(file)

ValidatorSpec == ValidatorInit /\ [][ValidatorNext]_vars

\* The allow-list of extensions, as the contract of the validator names it.
AllowList ==
  {"pdf", "docx", "doc", "mp3", "wav", "m4a", "flac", "aac", "ogg", "mp4",
   "avi", "mov", "mkv", "wmv", "flv", "webm", "m4v"}

\* The name has an extension (the text after its last dot) and that
\* extension, in lower case, is in the allow-list.
HasAllowedExtension(name) ==
  /\ Len(name) >= 2
  /\ toLowerCase(name[Len(name)]) \in AllowList

\* C12: validateFile accepts a file exactly when its name has an extension
\* of the allow-list, compared without regard to case, and its size is at
\* most 50 MB; every other file is rejected with a reason.
C12_ValidatorAcceptsExactly ==
  validation # NoValidation
    => /\ validation.isValid
            <=> (HasAllowedExtension(candidate.name)
                   /\ candidate.size <= 50 * 1024 * 1024)
       /\ ~validation.isValid
            => validation.error \in {UNSUPPORTED_FILE_TYPE, FILE_TOO_LARGE}

\* ------------------------------------------------------- the upload queue
\* The batches of one or two files a picker or a drop hands over.
UploadBatches ==
  { <<f>> : f \in FileInputs } \cup { <<f, g>> : f \in FileInputs, g \in FileInputs }

UploadInit ==
  /\ HooksIdle
  /\ ValidatorIdle
  /\ uploadImpl \in UploadImpls
  /\ lastBatch = NoBatch
  /\ ViewerIdle
  /\ ToolIdle

\* The queue after a selection or a drop of the batch.
Selected(queue, batch) ==
  IF uploadImpl = AppendImpl THEN handleFileSelect_hooks(queue, batch)
  ELSE IF uploadImpl = FirstOnlyImpl THEN handleFileSelect_part002(queue, batch)
  ELSE addUploadedFiles(queue, batch)

\* handleFileInputChange / handleDrop: the files of the event go to
\* handleFileSelect (addUploadedFiles in the Dashboard).
SelectFiles(batch) ==
  /\ Len(Selected(uploadedFiles, batch)) <= MaxQueue
  /\ uploadedFiles' = Selected(uploadedFiles, batch)
  /\ lastBatch' = batch
  /\ UNCHANGED <<impl, hasApiKey, processingStatus, results, inflight, calls,
                 lastCall, lastSettled, lastOp, window, candidate, validation,
                 uploadImpl, viewerVars, toolVars>>

\* removeFile(id) of the three queues: the entry with that id is dropped.
RemoveUpload(i) ==
  /\ i \in 1..Len(uploadedFiles)
  /\ uploadedFiles' = SubSeq(uploadedFiles, 1, i - 1)
                      \o SubSeq(uploadedFiles, i + 1, Len(uploadedFiles))
  /\ lastBatch' = NoBatch
  /\ UNCHANGED <<impl, hasApiKey, processingStatus, results, inflight, calls,
                 lastCall, lastSettled, lastOp, window, candidate, validation,
                 uploadImpl, viewerVars, toolVars>>

\* clearFiles() of the three queues.
ClearUploads ==
  /\ uploadedFiles' = <<>>
  /\ lastBatch' = NoBatch
  /\ UNCHANGED <<impl, hasApiKey, processingStatus, results, inflight, calls,
                 lastCall, lastSettled, lastOp, window, candidate, validation,
                 uploadImpl, viewerVars, toolVars>>

UploadNext ==
  \/ \E batch \in UploadBatches : SelectFiles(batch)
  \/ \E i \in 1..MaxQueue : RemoveUpload(i)
  \/ ClearUploads

UploadSpec == UploadInit /\ [][UploadNext]_vars

\* C13: every file in an upload queue has passed the validator, whatever
\* selections, drops, removals and clears came before.
C13_QueueHoldsValidFiles ==
  \A i \in 1..Len(uploadedFiles) : validateFile(uploadedFiles[i].file).isValid

\* C14: a selection or a drop appends every valid file of the batch to
\* the end of the queue, in batch order, and keeps the files that were in
\* the queue (stated of the two queues that validate).
C14_SelectionAppends ==
  [][ (lastBatch' # NoBatch /\ uploadImpl # DashboardImpl)
        => uploadedFiles' = uploadedFiles \o ValidUploads(lastBatch') ]_vars

\* ------------------------------------------- ResultsSection: the quiz
\* The options of a question, and the correct_answer the backend names:
\* one of the options, or a text that differs from an option by case.
Options == <<"A", "B">>
CorrectAnswers == {"A", "a"}

Questions ==
  { [options |-> Options, correct_answer |-> c] : c \in CorrectAnswers }

\* The quizzes a response may carry.
Quizzes == UNION { [1..n -> Questions] : n \in 1..MaxQuestions }

\* The tabs of the results.
Tabs == {"summary", "mindmap", "quiz", "flashcards"}

\* array[index] of a JavaScript array: undefined past its end.
At(array, index) ==
  IF index + 1 \in DOMAIN array THEN array[index + 1] ELSE Undef

\* new Array(length).fill(null)
ArrayOfNull(length) == [i \in 1..length |-> Null]

\* An answer compared with the correct answer without regard to case.
IsCorrect_AnyCase(question, answer) ==
  toLowerCase(answer) = toLowerCase(question.correct_answer)

\* quizState.userAnswers[index] === question.correct_answer
IsCorrect(question, answer) == answer = question.correct_answer

RECURSIVE CountCorrect(_, _, _)
\* let score = 0; quiz.forEach((question, index) => { if (...) score++ })
CountCorrect(questions, userAnswers, index) ==
  IF index >= Len(questions) THEN 0
  ELSE (IF IsCorrect(questions[index + 1], At(userAnswers, index))
        THEN 1 ELSE 0)
       + CountCorrect(questions, userAnswers, index + 1)

\* The state the init effect and the restart handler set.
FreshQuizState(questions) ==
  [currentQuestion |-> 0, userAnswers |-> ArrayOfNull(Len(questions)),
   showResults |-> FALSE, score |-> 0]

\* The init effect resetting the state whether or not a quiz is held.
useEffect_Always(questions, prev) == FreshQuizState(questions)

\* useEffect(() => { if (results?.quiz?.quiz) setQuizState({...}) },
\* [results?.quiz])
useEffect(questions, prev) ==
  IF questions # NoQuiz THEN FreshQuizState(questions) ELSE prev

\* An answer handler that also moves on to the next question.
handleAnswerSelect_AutoAdvance(questions, prev, answer) ==
  [prev EXCEPT !.userAnswers =
                 [prev.userAnswers EXCEPT ![prev.currentQuestion + 1] = answer],
               !.currentQuestion = prev.currentQuestion + 1]

\* handleAnswerSelect(answer)
handleAnswerSelect(questions, prev, answer) ==
  IF questions # NoQuiz
  THEN [prev EXCEPT !.userAnswers =
          [prev.userAnswers EXCEPT ![prev.currentQuestion + 1] = answer]]
  ELSE prev

\* handleNextQuestion()
handleNextQuestion(questions, prev) ==
  IF questions # NoQuiz /\ prev.currentQuestion < Len(questions) - 1
  THEN [prev EXCEPT !.currentQuestion = prev.currentQuestion + 1]
  ELSE prev

\* handlePreviousQuestion()
handlePreviousQuestion(prev) ==
  IF prev.currentQuestion > 0
  THEN [prev EXCEPT !.currentQuestion = prev.currentQuestion - 1]
  ELSE prev

\* handleFinishQuiz()
handleFinishQuiz(questions, prev) ==
  IF questions # NoQuiz
  THEN [prev EXCEPT !.showResults = TRUE,
                    !.score = CountCorrect(questions, prev.userAnswers, 0)]
  ELSE prev

\* A restart that keeps the score of the finished attempt.
handleRestartQuiz_KeepScore(questions, prev) ==
  IF questions # NoQuiz
  THEN [FreshQuizState(questions) EXCEPT !.score = prev.score]
  ELSE prev

\* handleRestartQuiz()
handleRestartQuiz(questions, prev) ==
  IF questions # NoQuiz THEN FreshQuizState(questions) ELSE prev

\* The render of the quiz tab reads results.quiz.quiz[currentQuestion]
\* .question in the answering view: a TypeError when the index is past the
\* end of the quiz.
RenderThrows(questions, state, tab) ==
  /\ tab = "quiz"
  /\ questions # NoQuiz
  /\ ~state.showResults
  /\ state.currentQuestion + 1 \notin DOMAIN questions

\* The answering view is on screen and takes clicks.
Answering ==
  /\ ~crashed
  /\ ~pendingInit
  /\ activeTab = "quiz"
  /\ quiz # NoQuiz
  /\ ~quizState.showResults

\* The results view is on screen and takes clicks.
ShowingResults ==
  /\ ~crashed
  /\ ~pendingInit
  /\ activeTab = "quiz"
  /\ quiz # NoQuiz
  /\ quizState.showResults

\* The event of a step, with the score and the view it found.
Did(op) ==
  [op |-> op, showResults |-> quizState.showResults,
   score |-> quizState.score]

\* New results reach the component: it renders with the new quiz and the
\* state it has, and the init effect is scheduled.
ReceiveQuiz(questions) ==
  /\ ~crashed
  /\ ~pendingInit
  /\ questions # NoQuiz \/ quiz # NoQuiz
  /\ quiz' = questions
  /\ pendingInit' = TRUE
  /\ crashed' = RenderThrows(questions, quizState, activeTab)
  /\ lastQuizOp' = Did("results")
  /\ UNCHANGED <<hookVars, validatorVars, uploadVars, toolVars, quizState, activeTab,
                 flashcards, visibleFlashcards>>

\* The init effect runs after the render that was committed.
QuizInitEffect ==
  /\ ~crashed
  /\ pendingInit
  /\ quizState' = useEffect(quiz, quizState)
  /\ pendingInit' = FALSE
  /\ lastQuizOp' = Did("init")
  /\ UNCHANGED <<hookVars, validatorVars, uploadVars, toolVars, quiz, activeTab,
                 crashed, flashcards, visibleFlashcards>>

\* A click on a tab trigger.
SelectTab(tab) ==
  /\ ~crashed
  /\ ~pendingInit
  /\ tab # activeTab
  /\ activeTab' = tab
  /\ crashed' = RenderThrows(quiz, quizState, tab)
  /\ lastQuizOp' = Did("tab")
  /\ UNCHANGED <<hookVars, validatorVars, uploadVars, toolVars, quiz, quizState,
                 pendingInit, flashcards, visibleFlashcards>>

\* A click on an option of the current question.
AnswerSelect(option) ==
  /\ Answering
  /\ quizState' = handleAnswerSelect(quiz, quizState, option)
  /\ lastQuizOp' = Did("answer")
  /\ UNCHANGED <<hookVars, validatorVars, uploadVars, toolVars, quiz, activeTab,
                 pendingInit, crashed, flashcards, visibleFlashcards>>

\* A click on "Next Question": the button is there on every question but
\* the last, enabled once the current question has an answer.
NextQuestion ==
  /\ Answering
  /\ quizState.currentQuestion # Len(quiz) - 1
  /\ At(quizState.userAnswers, quizState.currentQuestion) # Null
  /\ quizState' = handleNextQuestion(quiz, quizState)
  /\ lastQuizOp' = Did("next")
  /\ UNCHANGED <<hookVars, validatorVars, uploadVars, toolVars, quiz, activeTab,
                 pendingInit, crashed, flashcards, visibleFlashcards>>

\* A click on "Previous": disabled on the first question.
PreviousQuestion ==
  /\ Answering
  /\ quizState.currentQuestion # 0
  /\ quizState' = handlePreviousQuestion(quizState)
  /\ lastQuizOp' = Did("previous")
  /\ UNCHANGED <<hookVars, validatorVars, uploadVars, toolVars, quiz, activeTab,
                 pendingInit, crashed, flashcards, visibleFlashcards>>

\* A click on "Finish Quiz": the button is there on the last question,
\* enabled once that question has an answer.
FinishQuiz ==
  /\ Answering
  /\ quizState.currentQuestion = Len(quiz) - 1
  /\ At(quizState.userAnswers, quizState.currentQuestion) # Null
  /\ quizState' = handleFinishQuiz(quiz, quizState)
  /\ lastQuizOp' = Did("finish")
  /\ UNCHANGED <<hookVars, validatorVars, uploadVars, toolVars, quiz, activeTab,
                 pendingInit, crashed, flashcards, visibleFlashcards>>

\* A click on "Retake Quiz" in the results view.
RestartQuiz ==
  /\ ShowingResults
  /\ quizState' = handleRestartQuiz(quiz, quizState)
  /\ lastQuizOp' = Did("restart")
  /\ UNCHANGED <<hookVars, validatorVars, uploadVars, toolVars, quiz, activeTab,
                 pendingInit, crashed, flashcards, visibleFlashcards>>

\* InputSection mounts ResultsSection inside the content of its own quiz
\* tab, which is unmounted while another tab is open: the component comes
\* back with its initial state and runs its effects.
Remount ==
  /\ ~crashed
  /\ ~pendingInit
  /\ quizState' = InitialQuizState
  /\ activeTab' = DefaultTab
  /\ visibleFlashcards' = PageSize
  /\ pendingInit' = TRUE
  /\ lastQuizOp' = Did("mount")
  /\ UNCHANGED <<hookVars, validatorVars, uploadVars, toolVars, quiz, crashed,
                 flashcards>>

QuizInit ==
  /\ HooksIdle
  /\ ValidatorIdle
  /\ UploadIdle
  /\ ViewerIdle
  /\ ToolIdle

QuizNext ==
  \/ \E questions \in Quizzes \cup {NoQuiz} : ReceiveQuiz(questions)
  \/ QuizInitEffect
  \/ \E tab \in Tabs : SelectTab(tab)
  \/ \E option \in {Options[i] : i \in DOMAIN Options} : AnswerSelect(option)
  \/ NextQuestion
  \/ PreviousQuestion
  \/ FinishQuiz
  \/ RestartQuiz
  \/ Remount

QuizSpec == QuizInit /\ [][QuizNext]_vars

\* The positions of the quiz where the answer given is the correct answer.
Matches ==
  { i \in 1..Len(quiz) : quizState.userAnswers[i] = quiz[i].correct_answer }

\* C15: finishing a quiz sets the score to the number of positions whose
\* answer is exactly equal to the correct answer of the question.
C15_ScoreCountsExactMatches ==
  lastQuizOp.op = "finish"
    => /\ quizState.showResults
       /\ quizState.score = Cardinality(Matches)

\* C15 witness: a finished quiz with an answer that matches, and an answer
\* that differs from the correct answer by case only.
C15_Witness ==
  /\ lastQuizOp.op = "finish"
  /\ quizState.score = 1
  /\ \E i \in 1..Len(quiz) :
       /\ quizState.userAnswers[i] = "A"
       /\ quiz[i].correct_answer = "a"

\* C16: a restart sets the answers to one null for each question and the
\* score to 0, and shows the first question in the answering view.
C16_RestartResets ==
  lastQuizOp.op = "restart"
    => /\ quizState.userAnswers = [i \in 1..Len(quiz) |-> Null]
       /\ quizState.score = 0
       /\ ~quizState.showResults
       /\ quizState.currentQuestion = 0

\* C16 witness: a quiz of two questions restarted from a score above 0.
C16_Witness ==
  /\ lastQuizOp = [op |-> "restart", showResults |-> TRUE, score |-> 1]
  /\ Len(quiz) = 2
  /\ quizState = FreshQuizState(quiz)

C26_FinishedMeansAllAnswered ==
  quizState.showResults
    => \A i \in 1..Len(quiz) :
         At(quizState.userAnswers, i - 1) \notin {Null, Undef}

\* C17: whatever events came before, the index of the current question is
\* a position of the quiz that the results hold.
C17_IndexInRange ==
  quiz # NoQuiz => quizState.currentQuestion \in 0..(Len(quiz) - 1)

\* C18 as stated: from the finished state, every event but a restart
\* leaves show-results on and the score as it was.
C18_FinishedUntilRestart ==
  (lastQuizOp.showResults /\ lastQuizOp.op # "restart")
    => (quizState.showResults /\ quizState.score = lastQuizOp.score)

\* The state was set anew: the init effect took up the quiz of the
\* results, or the component was mounted again.
NewQuizTakenUp ==
  \/ lastQuizOp.op = "init" /\ quiz # NoQuiz
  \/ lastQuizOp.op = "mount"

\* C18: from the finished state, every event but a restart, the arrival
\* of a new quiz and a new mount of the component leaves show-results on
\* and the score as it was.
C18_FinishedUntilRestartOrNewQuiz ==
  (lastQuizOp.showResults /\ lastQuizOp.op # "restart" /\ ~NewQuizTakenUp)
    => (quizState.showResults /\ quizState.score = lastQuizOp.score)

\* C18 witness: the results leave a finished quiz with no quiz, the init
\* effect runs, and the quiz state is still finished with its score.
C18_Witness ==
  /\ lastQuizOp = [op |-> "init", showResults |-> TRUE, score |-> 1]
  /\ quiz = NoQuiz
  /\ quizState.showResults
  /\ quizState.score = 1

\* -------------------------------------- ResultsSection: the flashcards
\* total_cards of the decks a response may carry.
DeckSizes == {5, 12, 20, 30, 40}

\* Math.min(a, b)
Min(a, b) == IF a < b THEN a ELSE b

\* loadMoreFlashcards()
loadMoreFlashcards(totalCards, visible) ==
  IF totalCards # NoDeck THEN Min(visible + PageSize, totalCards) ELSE visible

\* New results with a deck reach the component.  No effect or handler
\* touches visibleFlashcards when the deck changes.
ReceiveDeck(totalCards) ==
  /\ ~crashed
  /\ ~pendingInit
  /\ totalCards # flashcards
  /\ flashcards' = totalCards
  /\ lastQuizOp' = Did("deck")
  /\ UNCHANGED <<hookVars, validatorVars, uploadVars, toolVars, quiz, quizState,
                 activeTab, pendingInit, crashed, visibleFlashcards>>

\* A click on "Load More Flashcards": the button is there while
\* total_cards > visibleFlashcards.
LoadMore ==
  /\ ~crashed
  /\ ~pendingInit
  /\ activeTab = "flashcards"
  /\ flashcards # NoDeck
  /\ flashcards > visibleFlashcards
  /\ visibleFlashcards' = loadMoreFlashcards(flashcards, visibleFlashcards)
  /\ lastQuizOp' = Did("loadMore")
  /\ UNCHANGED <<hookVars, validatorVars, uploadVars, toolVars, quiz, quizState,
                 activeTab, pendingInit, crashed, flashcards>>

FlashNext ==
  \/ \E totalCards \in DeckSizes \cup {NoDeck} : ReceiveDeck(totalCards)
  \/ \E tab \in Tabs : SelectTab(tab)
  \/ LoadMore
  \/ Remount
  \/ QuizInitEffect

FlashSpec == QuizInit /\ [][FlashNext]_vars

\* C19: the visible flashcard count, which starts at 12 and which a
\* load-more raises by 12, is never above the number of cards of the deck
\* that the results hold.
C19_VisibleWithinTotal ==
  flashcards # NoDeck => visibleFlashcards <= flashcards

\* ------------------------------------------- utils/mindmapToMermaid.ts
\* Texts are sequences of characters.  The characters of \w.
WordChars ==
  {"a", "b", "c", "d", "e", "f", "g", "h", "i", "j", "k", "l", "m", "n", "o",
   "p", "q", "r", "s", "t", "u", "v", "w", "x", "y", "z", "A", "B", "C", "D",
   "E", "F", "G", "H", "I", "J", "K", "L", "M", "N", "O", "P", "Q", "R", "S",
   "T", "U", "V", "W", "X", "Y", "Z", "0", "1", "2", "3", "4", "5", "6", "7",
   "8", "9", "_"}

DigitChars == <<"0", "1", "2", "3", "4", "5", "6", "7", "8", "9">>

RECURSIVE Digits(_)
\* `${n}` of a number that is not negative
Digits(n) ==
  IF n < 10 THEN <<DigitChars[n + 1]>>
  ELSE Digits(n \div 10) \o <<DigitChars[(n % 10) + 1]>>

RECURSIVE TrimStart(_)
TrimStart(text) ==
  IF Len(text) > 0 /\ Head(text) = " " THEN TrimStart(Tail(text)) ELSE text

RECURSIVE TrimEnd(_)
TrimEnd(text) ==
  IF Len(text) > 0 /\ text[Len(text)] = " "
  THEN TrimEnd(SubSeq(text, 1, Len(text) - 1))
  ELSE text

UNNAMED == <<"U", "n", "n", "a", "m", "e", "d">>

\* sanitizeNodeName(name)
sanitizeNodeName(name) ==
  IF Len(name) = 0 THEN UNNAMED
  ELSE LET unbracketed ==
             SelectSeq(name, LAMBDA c : c \notin {"[", "]", "(", ")", "{", "}"})
           kept ==
             SelectSeq(unbracketed, LAMBDA c : c \in WordChars \cup {" ", "-"})
           trimmed == TrimEnd(TrimStart(kept))
       IN SubSeq(trimmed, 1, IF Len(trimmed) < MaxLabel THEN Len(trimmed)
                             ELSE MaxLabel)

\* generateSafeId(baseId): baseId.replace(/[^a-zA-Z0-9_]/g, '_')
generateSafeId(baseId) ==
  [i \in 1..Len(baseId) |-> IF baseId[i] \in WordChars THEN baseId[i] ELSE "_"]

\* An identifier made of the level and the index alone.
Template_NoParent(parentId, level, index) ==
  <<"n">> \o <<"_">> \o Digits(level) \o <<"_">> \o Digits(index)

\* `${parentId}_${level}_${index}`
Template(parentId, level, index) ==
  parentId \o <<"_">> \o Digits(level) \o <<"_">> \o Digits(index)

rootId == <<"r", "o", "o", "t">>
emptyId == <<"e", "m", "p", "t", "y">>
NO_DATA ==
  <<"N", "o", " ", "d", "a", "t", "a", " ", "a", "v", "a", "i", "l", "a", "b",
    "l", "e">>

\* The lines of a diagram: `graph TD`, `id["label"]`, `from --> to`.
GraphLine(direction) ==
  [kind |-> "graph", id |-> <<>>, label |-> <<>>, from |-> <<>>, to |-> <<>>,
   direction |-> direction]
NodeLine(id, label) ==
  [kind |-> "node", id |-> id, label |-> label, from |-> <<>>, to |-> <<>>,
   direction |-> ""]
EdgeLine(from, to) ==
  [kind |-> "edge", id |-> <<>>, label |-> <<>>, from |-> from, to |-> to,
   direction |-> ""]

\* node.children of the node at a position of the tree: the nodes whose
\* parent it is, in order.
Children(data, node) ==
  SelectSeq([k \in 1..(data.size - 1) |-> k + 1],
            LAMBDA child : data.parent[child] = node)

RECURSIVE processNode(_, _, _, _)
RECURSIVE forEachChild(_, _, _, _, _)

\* A processNode that emits nothing below the children of the root.
processNode_Flat(data, node, parentId, level) == <<>>

\* processNode(node, parentId, level)
processNode(data, node, parentId, level) ==
  IF Len(Children(data, node)) = 0 THEN <<>>
  ELSE forEachChild(data, Children(data, node), parentId, level, 0)

\* children.forEach((child, index) => {...}): the body of the loop of
\* processNode, which is the body of the loop over the root's children
\* with level 0 and processNode(node, nodeId, 1).
forEachChild(data, children, parentId, level, index) ==
  IF index >= Len(children) THEN <<>>
  ELSE LET child == children[index + 1]
           childId == generateSafeId(Template(parentId, level, index))
       IN (IF Len(data.name[child]) = 0 THEN <<>>
           ELSE <<NodeLine(childId, sanitizeNodeName(data.name[child])),
                  EdgeLine(parentId, childId)>>
                \o (IF Len(Children(data, child)) > 0
                    THEN processNode(data, child, childId, level + 1)
                    ELSE <<>>))
          \o forEachChild(data, children, parentId, level, index + 1)

\* A guard that never takes the tree for an empty one.
IsEmpty_Never(data) == FALSE

\* !mindmapData?.mindmap?.children || mindmapData.mindmap.children.length
\* === 0
IsEmpty(data) == ~data.listed \/ Len(Children(data, 1)) = 0

\* convertMindmapToMermaid (direction TD) and convertMindmapToRadialMermaid
\* (direction LR)
convertMindmapToMermaid(direction, data) ==
  IF IsEmpty(data)
  THEN <<GraphLine(direction), NodeLine(emptyId, NO_DATA)>>
  ELSE <<GraphLine(direction), NodeLine(rootId, sanitizeNodeName(data.topic))>>
       \o forEachChild(data, Children(data, 1), rootId, 0, 0)

\* ---- inputs
\* node.name, as the backend sends it.
NodeNames == {<<>>, <<"C", "e", "l", "l", " ", "(", "x", ")">>}
Topics == {<<>>, <<"[", "P", "l", "a", "n", "t", "s", "]", " ">>}

\* The trees of n nodes: node 1 is the root and every other node names a
\* parent before it; the children of a node are in the order of their
\* positions.
Parents(n) == { p \in [2..n -> 1..n] : \A i \in 2..n : p[i] < i }

\* A root with no other node has an empty children list or none.
MindmapInputs ==
  UNION { { [size |-> n, parent |-> p, name |-> nm, listed |-> l,
             topic |-> t] :
              p \in Parents(n), nm \in [2..n -> NodeNames],
              l \in (IF n = 1 THEN BOOLEAN ELSE {TRUE}), t \in Topics } :
          n \in 1..MaxNodes }

MindInit ==
  /\ HooksIdle
  /\ ValidatorIdle
  /\ UploadIdle
  /\ ViewerIdle
  /\ mindmapData \in MindmapInputs
  /\ mermaidCode = NoDiagram
  /\ GatewayIdle
  /\ DashIdle

\* The mind-map view calls one of the two generators.
Convert(direction) ==
  /\ mermaidCode = NoDiagram
  /\ mermaidCode' = convertMindmapToMermaid(direction, mindmapData)
  /\ UNCHANGED <<hookVars, validatorVars, uploadVars, viewerVars, mindmapData,
                 gateway, dashVars>>

MindNext == \E direction \in {"TD", "LR"} : Convert(direction)

MindSpec == MindInit /\ [][MindNext]_vars

\* ---- what a diagram declares
Converted == mermaidCode # NoDiagram
NodeLines == SelectSeq(mermaidCode, LAMBDA line : line.kind = "node")
EdgeLines == SelectSeq(mermaidCode, LAMBDA line : line.kind = "edge")

\* C21: for a mind map whose root has no children (the list is empty or
\* missing) the diagram declares one node, the placeholder, and no edge.
C21_EmptyRootGivesPlaceholder ==
  (Converted /\ mindmapData.size = 1)
    => /\ NodeLines = <<NodeLine(emptyId, NO_DATA)>>
       /\ EdgeLines = <<>>

\* C21 witness: a root without a children list has been converted.
C21_Witness ==
  /\ Converted
  /\ mindmapData.size = 1
  /\ ~mindmapData.listed
  /\ Len(NodeLines) = 1

\* C22 as stated: for a tree whose root has a child, the diagram has as
\* many edges as the tree has nodes, less one.
C22_EdgesAreNodesLessOne ==
  (Converted /\ mindmapData.size > 1)
    => Len(EdgeLines) = mindmapData.size - 1

RECURSIVE IsKept(_, _)
\* The node and every node between it and the root has a name.
IsKept(data, node) ==
  \/ node = 1
  \/ Len(data.name[node]) > 0 /\ IsKept(data, data.parent[node])

Kept == { node \in 1..mindmapData.size : IsKept(mindmapData, node) }

\* C22: for a tree whose root has a child, the diagram has as many edges
\* as the tree has nodes that are named and lie below named nodes only
\* (the root counted), less one; it is the number of nodes of the tree less one
\* when every node below the root has a name.
C22_EdgesAreKeptNodesLessOne ==
  (Converted /\ mindmapData.size > 1)
    => /\ Len(EdgeLines) = Cardinality(Kept) - 1
       /\ Len(NodeLines) = Cardinality(Kept)

\* C22 witness: a tree of three levels below the root with a name on every
\* node, and so an edge for every node but the root.
C22_Witness ==
  /\ Converted
  /\ mindmapData.size = 4
  /\ mindmapData.parent = [i \in 2..4 |-> i - 1]
  /\ \A i \in 2..4 : Len(mindmapData.name[i]) > 0
  /\ Len(EdgeLines) = 3

\* C23: the identifiers of the nodes a diagram declares are pairwise
\* distinct.
C23_IdentifiersDistinct ==
  Converted
    => \A i, j \in 1..Len(NodeLines) :
         NodeLines[i].id = NodeLines[j].id => i = j

\* C23 witness: two children of the root, each with a first child of its
\* own, all declared.
C23_Witness ==
  /\ Converted
  /\ mindmapData.size = 5
  /\ mindmapData.parent = [i \in 2..5 |-> IF i < 4 THEN 1 ELSE i - 2]
  /\ Len(NodeLines) = 5

\* ------------------------- ApiClient.makeRequest and makeFileRequest
\* The responses a transport attempt may end with: the HTTP status, and
\* the body, which is JSON without an error member ("data"), JSON with an
\* error member ("error"), or no JSON at all ("html", "").
Statuses == {0, 200, 201, 299, 300, 404, 500}
Bodies == {"data", "error", "html", ""}

\* The events an XMLHttpRequest ends with besides 'load', and the ways a
\* fetch() promise rejects: the transfer failed.
TransportFailures(transport) ==
  IF transport = "xhr" THEN {"error", "timeout", "abort"} ELSE {"error"}

HTTP_ERROR == "HTTP error! status"
INVALID_JSON == "Invalid JSON response"
SYNTAX_ERROR == "SyntaxError"
DATA_ERROR == "data.error"
XHR_NETWORK_ERROR == "Network error occurred"
XHR_TIMED_OUT ==
  "Request timed out. Please try with a smaller file or check your connection."
XHR_ABORTED == "Request was aborted"
FETCH_FAILED == "TypeError: Failed to fetch"

\* JSON.parse(text) / response.json(): does it return a value
ParsesAsJson(body) == body \in {"data", "error"}

\* The promise of the call, settled.
Resolved(call) ==
  [call EXCEPT !.settles = call.settles + 1, !.settled = "resolved"]
Rejected(call, message) ==
  [call EXCEPT !.settles = call.settles + 1, !.settled = "rejected",
               !.message = message]

\* A load handler that does not look at the status.
onLoad_AnyStatus(call, status, body) ==
  IF ~ParsesAsJson(body) THEN Rejected(call, INVALID_JSON)
  ELSE IF body = "error" THEN Rejected(call, DATA_ERROR)
  ELSE Resolved(call)

\* xhr.addEventListener('load', ...) of makeFileRequest
onLoad(call, status, body) ==
  IF status >= 200 /\ status < 300
  THEN IF ~ParsesAsJson(body) THEN Rejected(call, INVALID_JSON)
       ELSE IF body = "error" THEN Rejected(call, DATA_ERROR)
       ELSE Resolved(call)
  ELSE Rejected(call, HTTP_ERROR)

\* makeRequest after `await fetch(url, finalOptions)` has a response:
\* response.ok is a status of 200 to 299.
onResponse(call, status, body) ==
  IF ~(status >= 200 /\ status <= 299) THEN Rejected(call, HTTP_ERROR)
  ELSE IF ~ParsesAsJson(body) THEN Rejected(call, SYNTAX_ERROR)
  ELSE IF body = "error" THEN Rejected(call, DATA_ERROR)
  ELSE Resolved(call)

\* The error, timeout and abort listeners of makeFileRequest; the catch
\* block of makeRequest when fetch() rejects.
onFailure(call, event) ==
  IF call.transport = "xhr"
  THEN Rejected(call, IF event = "error" THEN XHR_NETWORK_ERROR
                      ELSE IF event = "timeout" THEN XHR_TIMED_OUT
                      ELSE XHR_ABORTED)
  ELSE Rejected(call, FETCH_FAILED)

\* The methods of the ApiClient that make one request, and the private
\* method each hands it to: makeRequest (fetch) or makeFileRequest (xhr).
JsonMethods ==
  {"healthCheck", "summarizeText", "generateMindmap", "generateMCQQuiz",
   "generateFlashcards"}
FileMethods ==
  {"summarizeFile", "summarizeMultimedia", "generateMindmapMultimedia",
   "generateMCQQuizMultimedia", "generateFlashcardsMultimedia"}

TransportOf(method) == IF method \in JsonMethods THEN "fetch" ELSE "xhr"

GatewayInit ==
  /\ HooksIdle
  /\ ValidatorIdle
  /\ UploadIdle
  /\ ViewerIdle
  /\ MindIdle
  /\ GatewayIdle
  /\ DashIdle

\* A method of the ApiClient is called: makeRequest calls fetch() once,
\* makeFileRequest calls xhr.send() once.
GatewayCall(method) ==
  /\ gateway.phase # "pending"
  /\ gateway' = [NoGatewayCall EXCEPT !.method = method,
                                      !.transport = TransportOf(method),
                                      !.phase = "pending", !.sends = 1]
  /\ UNCHANGED <<hookVars, validatorVars, uploadVars, viewerVars, mindVars,
                 dashVars>>

\* The backend answers.
Respond(status, body) ==
  /\ gateway.phase = "pending"
  /\ LET ended == [gateway EXCEPT !.phase = "ended", !.ending = "response",
                                  !.status = status, !.body = body]
     IN gateway' = IF gateway.transport = "xhr"
                   THEN onLoad(ended, status, body)
                   ELSE onResponse(ended, status, body)
  /\ UNCHANGED <<hookVars, validatorVars, uploadVars, viewerVars, mindVars,
                 dashVars>>

\* The transfer fails: network error, or for an XMLHttpRequest its timer
\* or an abort.
TransferFails(event) ==
  /\ gateway.phase = "pending"
  /\ event \in TransportFailures(gateway.transport)
  /\ gateway' = onFailure([gateway EXCEPT !.phase = "ended",
                                          !.ending = event], event)
  /\ UNCHANGED <<hookVars, validatorVars, uploadVars, viewerVars, mindVars,
                 dashVars>>

GatewayNext ==
  \/ \E method \in JsonMethods \cup FileMethods : GatewayCall(method)
  \/ \E status \in Statuses, body \in Bodies : Respond(status, body)
  \/ \E event \in {"error", "timeout", "abort"} : TransferFails(event)

GatewaySpec == GatewayInit /\ [][GatewayNext]_vars

\* The attempt ended in a 2xx response that holds JSON.
EndedWell ==
  /\ gateway.ending = "response"
  /\ gateway.status \in 200..299
  /\ gateway.body \in {"data", "error"}

\* C24: a gateway call makes one transport attempt and settles once, when
\* the attempt ends: it rejects with an error after a status outside 2xx,
\* a body that is no JSON, a timeout, a network error or an abort, it
\* resolves only after a 2xx response that holds JSON, and the attempt is
\* not repeated.
C24_OneAttemptOneSettlement ==
  /\ gateway.phase # "idle" => gateway.sends = 1
  /\ gateway.phase = "pending"
       => (gateway.settles = 0 /\ gateway.settled = "pending")
  /\ gateway.phase = "ended"
       => /\ gateway.settles = 1
          /\ gateway.settled \in {"resolved", "rejected"}
          /\ ~EndedWell
               => (gateway.settled = "rejected" /\ gateway.message # "")
          /\ gateway.settled = "resolved" => EndedWell

\* C24 witness: a multipart call whose one attempt ended in status 200
\* with a body that is no JSON, rejected once.
C24_Witness ==
  /\ gateway.transport = "xhr"
  /\ gateway.phase = "ended"
  /\ gateway.status = 200
  /\ gateway.body = "html"
  /\ gateway.settled = "rejected"
  /\ gateway.message = INVALID_JSON
  /\ gateway.sends = 1

\* ------------------------------------------ pages/Dashboard.tsx: results
\* The results list of the Dashboard and its copy in local storage.
MaxClock == 3
MaxResults == 3

\* The artifact types a generate handler stores.
ResultTypes == {"summary", "flashcards"}

\* {id: Date.now().toString(), type, ...}
NewResult(time, type) == [id |-> Digits(time), type |-> type]

\* JSON.stringify(results): the text of the list, one {"id":..,"type":..}
\* object per result, in order.
JSONstringify(list) ==
  [i \in 1..Len(list) |-> <<"id", list[i].id, "type", list[i].type>>]

\* JSON.parse of a text that JSON.stringify wrote.
JSONparse(text) ==
  [i \in 1..Len(text) |-> [id |-> text[i][2], type |-> text[i][4]]]

\* localStorage.setItem("learningResults", text)
setItem(text) == [present |-> TRUE, text |-> text]

\* useEffect(() => { if (results.length > 0) setItem(...) }, [results])
saveEffect(list, stored) ==
  IF Len(list) > 0 THEN setItem(JSONstringify(list)) ELSE stored

\* The load in the mount effect: if (savedResults) setResults(JSON.parse(..))
loadEffect(stored) ==
  IF stored.present /\ Len(stored.text) > 0 THEN JSONparse(stored.text)
  ELSE <<>>

\* prev.filter(result => result.id !== id)
filterOut(list, id) == SelectSeq(list, LAMBDA result : result.id # id)

\* What a reload of the Dashboard shows.
Reloaded == loadEffect(learningResults)

DashInit ==
  /\ HooksIdle
  /\ ValidatorIdle
  /\ UploadIdle
  /\ ViewerIdle
  /\ MindIdle
  /\ GatewayIdle
  /\ DashIdle

\* Time passes between two events.
Tick ==
  /\ now < MaxClock
  /\ now' = now + 1
  /\ UNCHANGED <<hookVars, validatorVars, uploadVars, viewerVars, mindVars,
                 gateway, dashResults, learningResults>>

\* A generate handler gets its response: setResults(prev => [new, ...prev]),
\* then the save effect runs.
AddResult(type) ==
  /\ Len(dashResults) < MaxResults
  /\ dashResults' = <<NewResult(now, type)>> \o dashResults
  /\ learningResults' = saveEffect(dashResults', learningResults)
  /\ UNCHANGED <<hookVars, validatorVars, uploadVars, viewerVars, mindVars,
                 gateway, now>>

\* handleDeleteResult(id) from the delete button of a result shown, then
\* the save effect.
handleDeleteResult(id) ==
  /\ \E i \in 1..Len(dashResults) : dashResults[i].id = id
  /\ dashResults' = filterOut(dashResults, id)
  /\ learningResults' = saveEffect(dashResults', learningResults)
  /\ UNCHANGED <<hookVars, validatorVars, uploadVars, viewerVars, mindVars,
                 gateway, now>>

\* The page is reloaded by a logged-in user: the state starts as [], the
\* mount effect loads the saved list and the save effect runs.
Reload ==
  /\ dashResults' = loadEffect(learningResults)
  /\ learningResults' = saveEffect(dashResults', learningResults)
  /\ UNCHANGED <<hookVars, validatorVars, uploadVars, viewerVars, mindVars,
                 gateway, now>>

DashNext ==
  \/ Tick
  \/ \E type \in ResultTypes : AddResult(type)
  \/ \E time \in 0..MaxClock : handleDeleteResult(Digits(time))
  \/ Reload

DashSpec == DashInit /\ [][DashNext]_vars

\* C30: after every change to the results list of the Dashboard the list
\* saved in local storage equals the list in memory, so a reload shows the
\* results that were shown before it.
C30_StorageEqualsMemory == Reloaded = dashResults

====
